---------------------------- MODULE Spec2Model ----------------------------
(***************************************************************************)
(* lsipc (sys-utils/lsipc.c): option parsing, column selection, projection *)
(* of the queried IPC records onto the table, and printing.                *)
(*                                                                         *)
(* Strings that the program parses or compares (column names, the --output *)
(* list, --id and --time-format arguments) are sequences of one-character  *)
(* strings; a C string's terminating NUL is the position after the last    *)
(* element.  Formatted cell values are tagged tuples, one tag per format   *)
(* the code uses.                                                          *)
(***************************************************************************)
EXTENDS Integers, Sequences, FiniteSets, TLC

(***************************************************************************)
(* Column ids: the anonymous enum of lsipc.c                               *)
(***************************************************************************)
COL_KEY == 0
COL_ID == 1
COL_OWNER == 2
COL_PERMS == 3
COL_CUID == 4
COL_CGID == 5
COL_UID == 6
COL_GID == 7
COL_CTIME == 8
COL_USEDBYTES == 9
COL_MSGS == 10
COL_SEND == 11
COL_RECV == 12
COL_LSPID == 13
COL_LRPID == 14
COL_SIZE == 15
COL_NATTCH == 16
COL_STATUS == 17
COL_ATTACH == 18
COL_DETACH == 19
COL_COMMAND == 20
COL_CPID == 21
COL_LPID == 22
COL_NSEMS == 23
COL_OTIME == 24
COL_RESOURCE == 25
COL_DESC == 26
COL_USED == 27
COL_LIMIT == 28

COLDESC_IDX_GEN_FIRST == COL_KEY
COLDESC_IDX_GEN_LAST == COL_CTIME
COLDESC_IDX_MSG_FIRST == COL_USEDBYTES
COLDESC_IDX_MSG_LAST == COL_LRPID
COLDESC_IDX_SHM_FIRST == COL_SIZE
COLDESC_IDX_SHM_LAST == COL_LPID
COLDESC_IDX_SEM_FIRST == COL_NSEMS
COLDESC_IDX_SEM_LAST == COL_OTIME
COLDESC_IDX_SUM_FIRST == COL_RESOURCE
COLDESC_IDX_SUM_LAST == COL_LIMIT

\* output modes (outmode is 0 until an option sets it)
OUT_COLON == 1
OUT_EXPORT == 2
OUT_NEWLINE == 3
OUT_RAW == 4
OUT_NUL == 5
OUT_PRETTY == 6

\* time modes
TIME_INVALID == 0
TIME_SHORT == 1
TIME_FULL == 2
TIME_ISO == 3

\* coldescs[i].name; the entry of column id i is coldescs[i + 1]
coldescs ==
  << <<"K", "E", "Y">>,
     <<"I", "D">>,
     <<"O", "W", "N", "E", "R">>,
     <<"P", "E", "R", "M", "S">>,
     <<"C", "U", "I", "D">>,
     <<"C", "G", "I", "D">>,
     <<"U", "I", "D">>,
     <<"G", "I", "D">>,
     <<"C", "T", "I", "M", "E">>,
     <<"U", "S", "E", "D", "B", "Y", "T", "E", "S">>,
     <<"M", "S", "G", "S">>,
     <<"S", "E", "N", "D">>,
     <<"R", "E", "C", "V">>,
     <<"L", "S", "P", "I", "D">>,
     <<"L", "R", "P", "I", "D">>,
     <<"S", "I", "Z", "E">>,
     <<"N", "A", "T", "T", "C", "H">>,
     <<"S", "T", "A", "T", "U", "S">>,
     <<"A", "T", "T", "A", "C", "H">>,
     <<"D", "E", "T", "A", "C", "H">>,
     <<"C", "O", "M", "M", "A", "N", "D">>,
     <<"C", "P", "I", "D">>,
     <<"L", "P", "I", "D">>,
     <<"N", "S", "E", "M", "S">>,
     <<"O", "T", "I", "M", "E">>,
     <<"R", "E", "S", "O", "U", "R", "C", "E">>,
     <<"D", "E", "S", "C", "R", "I", "P", "T", "I", "O", "N">>,
     <<"U", "S", "E", "D">>,
     <<"L", "I", "M", "I", "T">> >>

\* ARRAY_SIZE(coldescs)
NColdescs == Len(coldescs)

\* ARRAY_SIZE(columns): static int columns[ARRAY_SIZE(coldescs) * 2]
ColumnsSize == NColdescs * 2

(***************************************************************************)
(* C strings                                                               *)
(***************************************************************************)
NUL == "NUL"

UpperCase ==
  <<"A", "B", "C", "D", "E", "F", "G", "H", "I", "J", "K", "L", "M",
    "N", "O", "P", "Q", "R", "S", "T", "U", "V", "W", "X", "Y", "Z">>

LowerCase ==
  <<"a", "b", "c", "d", "e", "f", "g", "h", "i", "j", "k", "l", "m",
    "n", "o", "p", "q", "r", "s", "t", "u", "v", "w", "x", "y", "z">>

LowerOf ==
  [c \in {UpperCase[k] : k \in 1..Len(UpperCase)} |->
     LowerCase[CHOOSE k \in 1..Len(UpperCase) : UpperCase[k] = c]]

\* tolower() in the C locale
tolower(c) == IF c \in DOMAIN LowerOf THEN LowerOf[c] ELSE c

\* s[k] of a NUL-terminated string, k counted from 0
CharAt(s, k) == IF k < Len(s) THEN s[k + 1] ELSE NUL

\* the string p + k
StrFrom(s, k) == IF k >= Len(s) THEN << >> ELSE SubSeq(s, k + 1, Len(s))

RECURSIVE strncasecmp_from(_, _, _, _)
strncasecmp_from(s1, s2, n, k) ==
  IF k >= n THEN 0
  ELSE IF tolower(CharAt(s1, k)) # tolower(CharAt(s2, k)) THEN 1
  ELSE IF CharAt(s1, k) = NUL THEN 0
  ELSE strncasecmp_from(s1, s2, n, k + 1)

\* strncasecmp(s1, s2, n): 0 when the first n characters (up to a NUL) are
\* equal ignoring case, non-zero (1 here) otherwise
strncasecmp(s1, s2, n) == strncasecmp_from(s1, s2, n, 0)

RECURSIVE strcmp_from(_, _, _)
strcmp_from(s1, s2, k) ==
  IF CharAt(s1, k) # CharAt(s2, k) THEN 1
  ELSE IF CharAt(s1, k) = NUL THEN 0
  ELSE strcmp_from(s1, s2, k + 1)

strcmp(s1, s2) == strcmp_from(s1, s2, 0)

(***************************************************************************)
(* column_name_to_id                                                       *)
(***************************************************************************)
W_UNKNOWN == "unknown column"
W_NOTAPPLY == "column does not apply to the specified IPC"

\* the comparison of one registry entry without the test of the end of the
\* registry name: a prefix of the registry name is taken for the name
NameMatches_prefix(name, namesz, cn) == strncasecmp(name, cn, namesz) = 0

\* !strncasecmp(name, cn, namesz) && !*(cn + namesz)
NameMatches(name, namesz, cn) ==
  /\ strncasecmp(name, cn, namesz) = 0
  /\ CharAt(cn, namesz) = NUL

RECURSIVE column_name_to_id_from(_, _, _, _, _)
column_name_to_id_from(name, namesz, lower, upper, i) ==
  IF i >= NColdescs
  THEN [id |-> -1, warn |-> W_UNKNOWN]
  ELSE IF NameMatches(name, namesz, coldescs[i + 1])
       THEN IF i > COL_CTIME
            THEN IF i >= lower /\ i <= upper
                 THEN [id |-> i, warn |-> ""]
                 ELSE [id |-> -1, warn |-> W_NOTAPPLY]
            ELSE [id |-> i, warn |-> ""]
       ELSE column_name_to_id_from(name, namesz, lower, upper, i + 1)

\* the id, or -1 and the warning printed; LOWER and UPPER are the globals
column_name_to_id(name, namesz, lower, upper) ==
  column_name_to_id_from(name, namesz, lower, upper, 0)

(***************************************************************************)
(* string_to_idarray (lib/strutils.c): splits the list at the commas and   *)
(* hands every name to column_name_to_id.  Returns the number of ids, -1   *)
(* for an empty list, an empty name or a name column_name_to_id rejects,   *)
(* and -2 when the array is full and the list goes on.                     *)
(***************************************************************************)
\* where the name that begins at b ends: at the next comma, or at the end
\* of the list when the comma is its last character or there is none
NameEnd(list, b) ==
  LET q == CHOOSE p \in b..(Len(list) - 1) :
             /\ CharAt(list, p) = "," \/ p = Len(list) - 1
             /\ \A r \in b..(p - 1) : CharAt(list, r) # ","
  IN IF q = Len(list) - 1 THEN Len(list) ELSE q

RECURSIVE string_to_idarray_from(_, _, _, _, _, _, _)
\* the loop from the name that begins at b, with ary and warns so far
string_to_idarray_from(list, arysz, lower, upper, b, ary, warns) ==
  IF Len(ary) >= arysz
  THEN [n |-> -2, ary |-> ary, warns |-> warns]
  ELSE
    LET e == NameEnd(list, b)
        r == column_name_to_id(StrFrom(list, b), e - b, lower, upper)
    IN IF e <= b
       THEN [n |-> -1, ary |-> ary, warns |-> warns]
       ELSE IF r.id = -1
       THEN [n |-> -1, ary |-> ary, warns |-> Append(warns, r.warn)]
       ELSE IF CharAt(list, e) = NUL
       THEN [n |-> Len(ary) + 1, ary |-> Append(ary, r.id), warns |-> warns]
       ELSE string_to_idarray_from(list, arysz, lower, upper, e + 1,
                                   Append(ary, r.id), warns)

string_to_idarray(list, arysz, lower, upper) ==
  IF list = << >> \/ arysz = 0
  THEN [n |-> -1, ary |-> << >>, warns |-> << >>]
  ELSE string_to_idarray_from(list, arysz, lower, upper, 0, << >>, << >>)

(***************************************************************************)
(* Options.  getopt_long hands main one option at a time; an option is     *)
(* named by its short letter, the long-only ones by their long name.       *)
(***************************************************************************)
\* the int getopt_long returns: the character, or CHAR_MAX + 1 + k for the
\* long-only options of main's enum
OptCode(o) ==
  CASE o = "J" -> 74  [] o = "P" -> 80  [] o = "V" -> 86  [] o = "c" -> 99
    [] o = "e" -> 101 [] o = "g" -> 103 [] o = "h" -> 104 [] o = "i" -> 105
    [] o = "m" -> 109 [] o = "n" -> 110 [] o = "o" -> 111 [] o = "q" -> 113
    [] o = "r" -> 114 [] o = "s" -> 115 [] o = "t" -> 116 [] o = "z" -> 122
    [] o = "time-format" -> 130
    [] o = "colon-separate" -> 131
    [] OTHER -> 63

\* the first row without --json among the output modes
excl_nojson ==
  << <<"e", "n", "r", "z", "colon-separate">>,
     <<"c", "g", "i", "t">>,
     <<"c", "i", "o", "t">>,
     <<"m", "q", "s">> >>

\* static const ul_excl_t excl[] of main
excl ==
  << <<"J", "e", "n", "r", "z", "colon-separate">>,
     <<"c", "g", "i", "t">>,
     <<"c", "i", "o", "t">>,
     <<"m", "q", "s">> >>

\* UL_EXCL_STATUS_INIT
UL_EXCL_STATUS_INIT == [e \in 1..Len(excl) |-> ""]

\* err_exclusive_options (include/optutils.h): every row that holds c
\* remembers the first of its options seen; a second, different option of
\* the row is the error.  The rows and their options are walked in
\* ascending order of their codes and only as far as c.
RowsWalked(c) ==
  {e \in 1..Len(excl) : \A f \in 1..e : OptCode(excl[f][1]) <= OptCode(c)}

RowHolds(e, c) ==
  \E k \in 1..Len(excl[e]) :
     /\ excl[e][k] = c
     /\ \A j \in 1..k : OptCode(excl[e][j]) <= OptCode(c)

\* the rows in which c conflicts with the option remembered
ExclConflicts(c, st) ==
  {e \in RowsWalked(c) : RowHolds(e, c) /\ st[e] # "" /\ st[e] # c}

\* the status after c passed
ExclStatus(c, st) ==
  [e \in 1..Len(excl) |->
     IF e \in RowsWalked(c) /\ RowHolds(e, c) /\ st[e] = "" THEN c ELSE st[e]]

(***************************************************************************)
(* atoi: optional sign, then the leading digits; 0 when there are none     *)
(***************************************************************************)
Digits == <<"0", "1", "2", "3", "4", "5", "6", "7", "8", "9">>

IsDigit(c) == \E k \in 1..10 : Digits[k] = c

DigitVal(c) == (CHOOSE k \in 1..10 : Digits[k] = c) - 1

RECURSIVE atoi_from(_, _, _)
atoi_from(s, k, acc) ==
  IF IsDigit(CharAt(s, k))
  THEN atoi_from(s, k + 1, acc * 10 + DigitVal(CharAt(s, k)))
  ELSE acc

atoi(s) ==
  IF CharAt(s, 0) = "-" THEN 0 - atoi_from(s, 1, 0)
  ELSE IF CharAt(s, 0) = "+" THEN atoi_from(s, 1, 0)
  ELSE atoi_from(s, 0, 0)

(***************************************************************************)
(* parse_time_mode                                                         *)
(***************************************************************************)
timefmts ==
  << [name |-> <<"i", "s", "o">>, val |-> TIME_ISO],
     [name |-> <<"f", "u", "l", "l">>, val |-> TIME_FULL],
     [name |-> <<"s", "h", "o", "r", "t">>, val |-> TIME_SHORT] >>

\* the mode, or TIME_INVALID where the code calls errx
parse_time_mode(optarg) ==
  IF \E k \in 1..Len(timefmts) : strcmp(timefmts[k].name, optarg) = 0
  THEN timefmts[CHOOSE k \in 1..Len(timefmts) :
                  strcmp(timefmts[k].name, optarg) = 0].val
  ELSE TIME_INVALID

(***************************************************************************)
(* Formatting                                                              *)
(***************************************************************************)
RECURSIVE utoa_base(_, _)
\* the digits of n >= 0 in the base
utoa_base(n, base) ==
  IF n < base THEN <<Digits[n + 1]>>
  ELSE Append(utoa_base(n \div base, base), Digits[(n % base) + 1])

\* "%u", "%d", "%ju" of a value >= 0
utoa(n) == utoa_base(n, 10)

\* "%d"
itoa(n) == IF n < 0 THEN <<"-">> \o utoa(0 - n) ELSE utoa(n)

\* "%#o": octal with a leading 0, plain "0" for 0
fmt_alt_octal(n) == IF n = 0 THEN <<"0">> ELSE <<"0">> \o utoa_base(n, 8)

RECURSIVE pad_left(_, _, _)
pad_left(s, width, c) == IF Len(s) >= width THEN s ELSE pad_left(<<c>> \o s, width, c)

HexDigits ==
  <<"0", "1", "2", "3", "4", "5", "6", "7", "8", "9", "a", "b", "c", "d", "e", "f">>

RECURSIVE hex_digits(_)
hex_digits(n) ==
  IF n < 16 THEN <<HexDigits[n + 1]>>
  ELSE Append(hex_digits(n \div 16), HexDigits[(n % 16) + 1])

\* "0x%08x"
fmt_key(n) == <<"0", "x">> \o pad_left(hex_digits(n), 8, "0")

\* bit b (a power of two) of n
BitSet(n, b) == (n \div b) % 2 = 1

\* mode & 0777
Perms(mode) == mode % 512

\* strmode (lib/strmode.c): the rwx characters of user, group and others
\* (the character of the file type, which these modes do not have, is left
\* out)
strmode(m) ==
  << IF BitSet(m, 256) THEN "r" ELSE "-",
     IF BitSet(m, 128) THEN "w" ELSE "-",
     IF BitSet(m, 64) THEN "x" ELSE "-",
     IF BitSet(m, 32) THEN "r" ELSE "-",
     IF BitSet(m, 16) THEN "w" ELSE "-",
     IF BitSet(m, 8) THEN "x" ELSE "-",
     IF BitSet(m, 4) THEN "r" ELSE "-",
     IF BitSet(m, 2) THEN "w" ELSE "-",
     IF BitSet(m, 1) THEN "x" ELSE "-" >>

\* make_time: the formatting itself is strftime's and asctime's; the model
\* keeps the mode and the seconds.  TIME_INVALID is the errx of the default
\* branch.
make_time(mode, time) ==
  CASE mode = TIME_FULL -> <<"F", "@">> \o utoa(time)
    [] mode = TIME_SHORT -> <<"S", "@">> \o utoa(time)
    [] mode = TIME_ISO -> <<"I", "@">> \o utoa(time)
    [] OTHER -> <<"unsupported time type">>

\* size_to_human_string(SIZE_SUFFIX_1LETTER, bytes) for bytes below 1024
size_to_human_string(bytes) == utoa(bytes) \o <<"B">>

\* SHM_DEST, SHM_LOCKED, SHM_HUGETLB, SHM_NORESERVE of <sys/shm.h>
SHM_DEST == 512
SHM_LOCKED == 1024
SHM_HUGETLB == 2048
SHM_NORESERVE == 4096

str_dest == <<"d", "e", "s", "t">>
str_locked == <<"l", "o", "c", "k", "e", "d">>
str_hugetlb == <<"h", "u", "g", "e", "t", "l", "b">>
str_noreserve == <<"n", "o", "r", "e", "s", "e", "r", "v", "e">>

\* the STATUS cell of do_shm: comma counts only the dest flag
shm_status(mode) ==
  LET comma0 == 0
      a1 == IF BitSet(mode, SHM_DEST) THEN str_dest ELSE << >>
      comma == IF BitSet(mode, SHM_DEST) THEN comma0 + 1 ELSE comma0
      a2 == IF BitSet(mode, SHM_LOCKED)
            THEN a1 \o (IF comma # 0 THEN <<",">> ELSE << >>) \o str_locked
            ELSE a1
      a3 == IF BitSet(mode, SHM_HUGETLB)
            THEN a2 \o (IF comma # 0 THEN <<",">> ELSE << >>) \o str_hugetlb
            ELSE a2
      a4 == IF BitSet(mode, SHM_NORESERVE)
            THEN a3 \o (IF comma # 0 THEN <<",">> ELSE << >>) \o str_noreserve
            ELSE a3
  IN a4

(***************************************************************************)
(* Cells, and the identity lookups                                         *)
(***************************************************************************)
\* a cell scols_line_set_data was called on, and one it was not called on
Cell(data) == [set |-> TRUE, data |-> data]
NoCell == [set |-> FALSE, data |-> << >>]

\* what a read through a null pointer leaves in the cell when it does not
\* end the process
Garbage == <<"?">>

\* struct passwd / struct group pointers: getpwuid and getgrgid return the
\* address of one static buffer each, or NULL
NULL == "NULL"
BUF == "static"

NoEntry == [id |-> -1, name |-> << >>]

\* locals of do_msg / do_shm / do_sem, and the two static buffers
InitLookup ==
  [pw |-> NULL, gr |-> NULL, cpw |-> NULL, cgr |-> NULL,
   pwbuf |-> NoEntry, grbuf |-> NoEntry]

\* dir: the entries of the passwd (or group) directory, a function from the
\* ids that have one to their names.  The pointer returned and the buffer.
lookup(dir, buf, x) ==
  IF x \in DOMAIN dir
  THEN [ptr |-> BUF, buf |-> [id |-> x, name |-> dir[x]]]
  ELSE [ptr |-> NULL, buf |-> buf]

(***************************************************************************)
(* Projection of one record onto one column.  env holds what the functions *)
(* read besides the record: ctl->numperms, ctl->time_mode, the passwd and  *)
(* group directories and the process table.  The result is the set of      *)
(* outcomes [cell, lk, crash]: more than one where the code reads through  *)
(* a null pointer.                                                         *)
(***************************************************************************)
One(cell, lk) == {[cell |-> cell, lk |-> lk, crash |-> FALSE]}

\* xasprintf(&arg, "%s", p->name) with p a null pointer
NullRead(lk) ==
  {[cell |-> NoCell, lk |-> lk, crash |-> TRUE],
   [cell |-> Cell(Garbage), lk |-> lk, crash |-> FALSE]}

\* the time cell without the test of the timestamp
TimeCell_unchecked(env, t) == Cell(make_time(env.time_mode, t))

TimeCell(env, t) == IF t # 0 THEN Cell(make_time(env.time_mode, t)) ELSE NoCell

\* the PERMS case of do_msg: the numeric branch formats arg and never
\* hands it to the line
msg_perms(r, env) ==
  IF env.numperms
  THEN NoCell
  ELSE Cell(strmode(Perms(r.perm.mode)))

\* the COL_CUID case of do_msg and do_shm
creator_uid_cell(r, lk, env) ==
  IF r.perm.cuid = r.perm.uid
  THEN IF lk.pw = NULL THEN NullRead(lk) ELSE One(Cell(lk.pwbuf.name), lk)
  ELSE LET g == lookup(env.passwd, lk.pwbuf, r.perm.cuid)
           lk2 == [lk EXCEPT !.pw = g.ptr, !.pwbuf = g.buf]
       IN IF g.ptr # NULL
          THEN One(Cell(g.buf.name), lk2)
          ELSE One(Cell(utoa(r.perm.cuid)), lk2)

\* the COL_CGID case of do_msg and do_shm: the fallback prints cuid
creator_gid_cell(r, lk, env) ==
  IF r.perm.cgid = r.perm.gid
  THEN IF lk.gr = NULL THEN NullRead(lk) ELSE One(Cell(lk.grbuf.name), lk)
  ELSE LET g == lookup(env.group, lk.grbuf, r.perm.cgid)
           lk2 == [lk EXCEPT !.gr = g.ptr, !.grbuf = g.buf]
       IN IF g.ptr # NULL
          THEN One(Cell(g.buf.name), lk2)
          ELSE One(Cell(utoa(r.perm.cuid)), lk2)

\* the cases COL_KEY .. COL_GID without PERMS, CUID and CGID, the same in
\* the three functions
generic_cell(col, r, lk) ==
  CASE col = COL_KEY -> Cell(fmt_key(r.perm.key))
    [] col = COL_ID -> Cell(itoa(r.perm.id))
    [] col \in {COL_OWNER, COL_UID} ->
         IF lk.pw # NULL THEN Cell(lk.pwbuf.name) ELSE Cell(utoa(r.perm.uid))
    [] col = COL_GID ->
         IF lk.gr # NULL THEN Cell(lk.grbuf.name) ELSE Cell(utoa(r.perm.gid))

GenericPlain == {COL_KEY, COL_ID, COL_OWNER, COL_UID, COL_GID}

\* the switch of do_msg
msg_cell(col, r, lk, env) ==
  CASE col \in GenericPlain -> One(generic_cell(col, r, lk), lk)
    [] col = COL_PERMS -> One(msg_perms(r, env), lk)
    [] col = COL_CUID -> creator_uid_cell(r, lk, env)
    [] col = COL_CGID -> creator_gid_cell(r, lk, env)
    [] col = COL_CTIME -> One(TimeCell(env, r.q_ctime), lk)
    [] col = COL_USEDBYTES -> One(Cell(utoa(r.q_cbytes)), lk)
    [] col = COL_MSGS -> One(Cell(utoa(r.q_qnum)), lk)
    [] col = COL_SEND -> One(TimeCell(env, r.q_stime), lk)
    [] col = COL_RECV -> One(TimeCell(env, r.q_rtime), lk)
    [] col = COL_LSPID -> One(Cell(utoa(r.q_lspid)), lk)
    [] col = COL_LRPID -> One(Cell(utoa(r.q_lrpid)), lk)
    [] OTHER -> One(NoCell, lk)

\* proc_get_command: the command line, or NULL
proc_get_command(env, pid) ==
  IF pid \in DOMAIN env.procs THEN Cell(env.procs[pid]) ELSE NoCell

\* the switch of do_shm
shm_cell(col, r, lk, env) ==
  CASE col \in GenericPlain -> One(generic_cell(col, r, lk), lk)
    [] col = COL_PERMS ->
         One(IF env.numperms
             THEN Cell(fmt_alt_octal(Perms(r.perm.mode)))
             ELSE Cell(strmode(Perms(r.perm.mode))), lk)
    [] col = COL_CUID -> creator_uid_cell(r, lk, env)
    [] col = COL_CGID -> creator_gid_cell(r, lk, env)
    [] col = COL_CTIME -> One(TimeCell(env, r.shm_ctim), lk)
    [] col = COL_SIZE -> One(Cell(size_to_human_string(r.shm_segsz)), lk)
    [] col = COL_NATTCH -> One(Cell(utoa(r.shm_nattch)), lk)
    [] col = COL_STATUS -> One(Cell(shm_status(r.perm.mode)), lk)
    [] col = COL_ATTACH -> One(TimeCell(env, r.shm_atim), lk)
    [] col = COL_DETACH -> One(TimeCell(env, r.shm_dtim), lk)
    [] col = COL_CPID -> One(Cell(utoa(r.shm_cprid)), lk)
    [] col = COL_LPID -> One(Cell(utoa(r.shm_lprid)), lk)
    [] col = COL_COMMAND -> One(proc_get_command(env, r.shm_cprid), lk)
    [] OTHER -> One(NoCell, lk)

\* the switch of do_sem: cpw and cgr were looked up before the loop over
\* the columns; the fallback of CGID prints cuid
sem_cell(col, r, lk, env) ==
  CASE col \in GenericPlain -> One(generic_cell(col, r, lk), lk)
    [] col = COL_PERMS ->
         One(IF env.numperms
             THEN Cell(fmt_alt_octal(Perms(r.perm.mode)))
             ELSE Cell(strmode(Perms(r.perm.mode))), lk)
    [] col = COL_CUID ->
         One(IF lk.cpw # NULL THEN Cell(lk.pwbuf.name)
             ELSE Cell(utoa(r.perm.cuid)), lk)
    [] col = COL_CGID ->
         One(IF lk.cgr # NULL THEN Cell(lk.grbuf.name)
             ELSE Cell(utoa(r.perm.cuid)), lk)
    [] col = COL_CTIME -> One(TimeCell(env, r.sem_ctime), lk)
    [] col = COL_NSEMS -> One(Cell(utoa(r.sem_nsems)), lk)
    [] col = COL_OTIME -> One(TimeCell(env, r.sem_otime), lk)
    [] OTHER -> One(NoCell, lk)

class_cell(class, col, r, lk, env) ==
  CASE class = "msg" -> msg_cell(col, r, lk, env)
    [] class = "shm" -> shm_cell(col, r, lk, env)
    [] class = "sem" -> sem_cell(col, r, lk, env)

\* pw = getpwuid(uid) unless pw is set and pw->pw_uid is uid
cached_pw(ptr, lk, env, uid) ==
  IF ptr # NULL /\ lk.pwbuf.id = uid
  THEN [ptr |-> ptr, buf |-> lk.pwbuf]
  ELSE lookup(env.passwd, lk.pwbuf, uid)

cached_gr(ptr, lk, env, gid) ==
  IF ptr # NULL /\ lk.grbuf.id = gid
  THEN [ptr |-> ptr, buf |-> lk.grbuf]
  ELSE lookup(env.group, lk.grbuf, gid)

\* the lookups at the head of the loop body: pw and gr (do_msg, do_shm),
\* then cpw and cgr as well (do_sem)
row_lookups(class, r, lk, env) ==
  LET p == cached_pw(lk.pw, lk, env, r.perm.uid)
      l1 == [lk EXCEPT !.pw = p.ptr, !.pwbuf = p.buf]
      g == cached_gr(l1.gr, l1, env, r.perm.gid)
      l2 == [l1 EXCEPT !.gr = g.ptr, !.grbuf = g.buf]
      cp == cached_pw(l2.cpw, l2, env, r.perm.cuid)
      l3 == [l2 EXCEPT !.cpw = cp.ptr, !.pwbuf = cp.buf]
      cg == cached_gr(l3.cgr, l3, env, r.perm.cgid)
      l4 == [l3 EXCEPT !.cgr = cg.ptr, !.grbuf = cg.buf]
  IN IF class = "sem" THEN l4 ELSE l2

RECURSIVE row_from(_, _, _, _, _, _)
\* the while (n < ncolumns) loop, from column n (counted from 0) on; S is
\* the set of outcomes [cells, lk, crash] so far
row_from(class, cols, r, env, n, S) ==
  IF n >= Len(cols) THEN S
  ELSE row_from(class, cols, r, env, n + 1,
         UNION { IF s.crash THEN {s}
                 ELSE {[cells |-> Append(s.cells, o.cell), lk |-> o.lk,
                        crash |-> o.crash] :
                         o \in class_cell(class, cols[n + 1], r, s.lk, env)} :
                 s \in S })

\* one pass of the loop body over the record r
project_row(class, cols, r, lk, env) ==
  row_from(class, cols, r, env, 0,
           {[cells |-> << >>, lk |-> row_lookups(class, r, lk, env),
             crash |-> FALSE]})

(***************************************************************************)
(* The query collaborator (lib/ipcutils.c), as the functions use it        *)
(***************************************************************************)
\* ipc_msg_get_info, ipc_shm_get_info, ipc_sem_get_info: every object of
\* the class, or, for id > -1, the object with that id; the return value
\* is the number of objects
get_info(all, id0) ==
  IF id0 > -1
  THEN SelectSeq(all, LAMBDA r : r.perm.id = id0)
  ELSE all

\* getpagesize()
PageSize == 4096

(***************************************************************************)
(* State                                                                   *)
(***************************************************************************)
VARIABLES
  pc,          \* where the run is: a position in main, or in a do_* loop
  nargs,       \* number of options getopt_long has handed out
  seen,        \* history: the options handed out so far
  optNames,    \* history: the names the last --output list was built from
  msg, shm, sem, opt_o, id, show_time, show_creat, global, opts,
  ctl,         \* struct lsipc_control: json, numperms, time_mode
  outmode, LOWER, UPPER, excl_st,
  columns,     \* the slots of columns[] written, from slot 0 on
  ncolumns,
  tb,          \* the table: its columns and its lines, NULL before setup
  sys,         \* what the collaborators answer: IPC objects and directories
  ds,          \* the list a do_* function walks
  dsp,         \* position in ds, counted from 1
  lk,          \* pw, gr, cpw, cgr and the static buffers behind them
  stdout, stderr,
  status,      \* "running", EXIT_SUCCESS, EXIT_FAILURE or "crashed"
  call         \* a call of column_name_to_id on its own, and its result

optvars == <<nargs, seen, optNames, msg, shm, sem, opt_o, id, show_time,
             show_creat, global, opts, ctl, outmode, LOWER, UPPER, excl_st>>
colvars == <<columns, ncolumns>>
projvars == <<ds, dsp, lk>>
outvars == <<stdout, stderr, status>>
vars == <<pc, optvars, colvars, tb, sys, projvars, outvars, call>>

EXIT_SUCCESS == "EXIT_SUCCESS"
EXIT_FAILURE == "EXIT_FAILURE"

NoCall ==
  [name |-> << >>, namesz |-> 0, done |-> FALSE, ret |-> [id |-> -1, warn |-> ""]]

(***************************************************************************)
(* Bounds and inputs                                                       *)
(***************************************************************************)
\* options on one command line
MaxArgs == 3

\* IPC objects of one class in the projection runs
MaxRecords == 2

RECURSIVE JoinNames(_)
\* the names with a comma between each two
JoinNames(names) ==
  IF names = << >> THEN << >>
  ELSE IF Len(names) = 1 THEN names[1]
  ELSE names[1] \o <<",">> \o JoinNames(Tail(names))

Repeat(x, n) == [k \in 1..n |-> x]

\* --output lists, each as the sequence of its names: of every band, in
\* either case, with a name twice, with names that are no registry name,
\* with an empty name, and one name repeated up to one past the size of
\* columns[]
OutputLists ==
  { << coldescs[COL_KEY + 1], coldescs[COL_ID + 1],
       coldescs[COL_PERMS + 1], coldescs[COL_OWNER + 1] >>,
    << <<"k", "e", "y">>, <<"I", "d">> >>,
    << coldescs[COL_SIZE + 1] >>,
    << coldescs[COL_MSGS + 1], coldescs[COL_KEY + 1] >>,
    << coldescs[COL_NSEMS + 1] >>,
    << coldescs[COL_RESOURCE + 1], coldescs[COL_DESC + 1],
       coldescs[COL_USED + 1], coldescs[COL_LIMIT + 1] >>,
    << coldescs[COL_KEY + 1], coldescs[COL_KEY + 1] >>,
    << <<"K", "E">> >>,
    << coldescs[COL_ID + 1], <<"I", "D", "S">> >>,
    << coldescs[COL_KEY + 1], << >> >>,
    << >> }
  \cup { Repeat(coldescs[COL_ID + 1], n) : n \in {ColumnsSize, ColumnsSize + 1} }

IdArgs == { <<"1">>, <<"7">>, <<"-", "1">>, <<"-", "5">>, <<"x">> }

TimeArgs == { timefmts[1].name, timefmts[2].name, <<"u", "t", "c">> }

\* options without an argument; "?" is what getopt_long returns for an
\* option it does not know
PlainOptions ==
  {"c", "e", "g", "J", "m", "n", "P", "q", "r", "s", "t", "z",
   "colon-separate", "h", "V", "?"}

OptionInputs ==
  { [o |-> o, arg |-> << >>, names |-> << >>] : o \in PlainOptions }
  \cup { [o |-> "i", arg |-> a, names |-> << >>] : a \in IdArgs }
  \cup { [o |-> "time-format", arg |-> a, names |-> << >>] : a \in TimeArgs }
  \cup { [o |-> "o", arg |-> JoinNames(l), names |-> l] : l \in OutputLists }
  \cup { [o |-> "o", arg |-> <<"=">> \o JoinNames(l), names |-> l] :
           l \in { << coldescs[COL_KEY + 1], coldescs[COL_ID + 1] >> } }

\* directories: uids 0 and 1 and gids 10 and 11 have an entry, 2 and 12
\* have none
Passwd == (0 :> <<"r", "o", "o", "t">>) @@ (1 :> <<"a", "n", "n">>)
Group == (10 :> <<"a", "d", "m">>) @@ (11 :> <<"d", "e", "v">>)
Procs == (100 :> <<"s", "h">>)

Perm(i, uid, gid, cuid, cgid, mode) ==
  [key |-> 4096 + i, id |-> i, uid |-> uid, gid |-> gid, cuid |-> cuid,
   cgid |-> cgid, mode |-> mode]

MsgRec(perm, t) ==
  [perm |-> perm, q_ctime |-> t, q_cbytes |-> 64, q_qnum |-> 2,
   q_stime |-> t, q_rtime |-> 0, q_lspid |-> 100, q_lrpid |-> 101]

ShmRec(perm, t) ==
  [perm |-> perm, shm_ctim |-> t, shm_segsz |-> 512, shm_nattch |-> 1,
   shm_atim |-> t, shm_dtim |-> 0, shm_cprid |-> 100, shm_lprid |-> 101]

SemRec(perm, t, n) ==
  [perm |-> perm, sem_ctime |-> t, sem_otime |-> 0, sem_nsems |-> n]

Limits ==
  [msgmni |-> 32000, msgmax |-> 8192, msgmnb |-> 16384, shmmni |-> 4096,
   shmall |-> 1000000, semmns |-> 32000, semmni |-> 128]

\* the system of the runs of main: two objects of every class
DefaultSys ==
  [msgs |-> << MsgRec(Perm(0, 0, 10, 0, 10, 420), 1000),
               MsgRec(Perm(1, 1, 11, 2, 12, 384), 0) >>,
   shms |-> << ShmRec(Perm(0, 1, 10, 1, 10, 420 + SHM_DEST), 1000),
               ShmRec(Perm(1, 2, 12, 0, 11, 384), 0) >>,
   sems |-> << SemRec(Perm(0, 0, 10, 1, 11, 420), 1000, 3),
               SemRec(Perm(1, 2, 12, 2, 12, 384), 0, 5) >>,
   passwd |-> Passwd, group |-> Group, procs |-> Procs, lim |-> Limits]

(***************************************************************************)
(* main: the option loop                                                   *)
(***************************************************************************)
\* errx, err: one message on standard error, exit(EXIT_FAILURE)
Fail(m) ==
  /\ stderr' = Append(stderr, m)
  /\ status' = EXIT_FAILURE
  /\ pc' = "exit"

\* the options that set outmode, and the value each sets
ModeOf(c) ==
  CASE c = "i" -> OUT_PRETTY
    [] c = "colon-separate" -> OUT_COLON
    [] c = "e" -> OUT_EXPORT
    [] c = "r" -> OUT_RAW
    [] c = "n" -> OUT_NEWLINE
    [] c = "z" -> OUT_NUL
    [] OTHER -> outmode

\* the options that set LOWER and UPPER, with the bands of q and m taken for
\* one another
RangeOf_swapped(c) ==
  CASE c = "g" -> <<COLDESC_IDX_SUM_FIRST, COLDESC_IDX_SUM_LAST>>
    [] c = "q" -> <<COLDESC_IDX_SHM_FIRST, COLDESC_IDX_SHM_LAST>>
    [] c = "m" -> <<COLDESC_IDX_MSG_FIRST, COLDESC_IDX_MSG_LAST>>
    [] c = "s" -> <<COLDESC_IDX_SEM_FIRST, COLDESC_IDX_SEM_LAST>>
    [] OTHER -> <<LOWER, UPPER>>

\* the options that set LOWER and UPPER
RangeOf(c) ==
  CASE c = "g" -> <<COLDESC_IDX_SUM_FIRST, COLDESC_IDX_SUM_LAST>>
    [] c = "q" -> <<COLDESC_IDX_MSG_FIRST, COLDESC_IDX_MSG_LAST>>
    [] c = "m" -> <<COLDESC_IDX_SHM_FIRST, COLDESC_IDX_SHM_LAST>>
    [] c = "s" -> <<COLDESC_IDX_SEM_FIRST, COLDESC_IDX_SEM_LAST>>
    [] OTHER -> <<LOWER, UPPER>>

\* the switch (opt) of the loop, for the options that go on to the next one
Switch(c, arg, names) ==
  /\ id' = IF c = "i" THEN atoi(arg) ELSE id
  /\ outmode' = ModeOf(c)
  /\ opts' = IF c = "o"
             THEN (IF CharAt(arg, 0) = "=" THEN StrFrom(arg, 1) ELSE arg)
             ELSE opts
  /\ optNames' = IF c = "o" THEN names ELSE optNames
  /\ opt_o' = IF c = "o" THEN 1 ELSE opt_o
  /\ global' = IF c = "g" THEN 1 ELSE global
  /\ msg' = IF c = "q" THEN 1 ELSE msg
  /\ shm' = IF c = "m" THEN 1 ELSE shm
  /\ sem' = IF c = "s" THEN 1 ELSE sem
  /\ LOWER' = RangeOf(c)[1]
  /\ UPPER' = RangeOf(c)[2]
  /\ ctl' = [ctl EXCEPT
               !.numperms = IF c = "P" THEN TRUE ELSE @,
               !.json = IF c = "J" THEN TRUE ELSE @,
               !.time_mode = IF c = "time-format" THEN parse_time_mode(arg) ELSE @]
  /\ show_time' = IF c = "t" THEN 1 ELSE show_time
  /\ show_creat' = IF c = "c" THEN 1 ELSE show_creat

optstate == <<optNames, msg, shm, sem, opt_o, id, show_time, show_creat, global,
              opts, ctl, outmode, LOWER, UPPER>>

\* one pass of while ((opt = getopt_long(...)) != -1)
ParseOption ==
  /\ pc = "getopt"
  /\ nargs < MaxArgs
  /\ \E in \in OptionInputs :
       /\ nargs' = nargs + 1
       /\ seen' = seen \cup {in.o}
       /\ IF ExclConflicts(in.o, excl_st) # {}
          THEN /\ Fail("mutually exclusive arguments")
               /\ UNCHANGED <<optstate, excl_st, stdout>>
          ELSE /\ excl_st' = ExclStatus(in.o, excl_st)
               /\ CASE in.o = "h" ->
                         /\ stdout' = Append(stdout, [what |-> "usage", lines |-> << >>])
                         /\ status' = EXIT_SUCCESS
                         /\ pc' = "exit"
                         /\ UNCHANGED <<optstate, stderr>>
                    [] in.o = "V" ->
                         /\ stdout' = Append(stdout, [what |-> "version", lines |-> << >>])
                         /\ status' = EXIT_SUCCESS
                         /\ pc' = "exit"
                         /\ UNCHANGED <<optstate, stderr>>
                    [] in.o = "?" ->
                         /\ Fail("usage")
                         /\ UNCHANGED <<optstate, stdout>>
                    [] in.o = "time-format" /\ parse_time_mode(in.arg) = TIME_INVALID ->
                         /\ Fail("unknown time format")
                         /\ UNCHANGED <<optstate, stdout>>
                    [] OTHER ->
                         /\ Switch(in.o, in.arg, in.names)
                         /\ UNCHANGED <<pc, outvars>>
  /\ UNCHANGED <<colvars, tb, sys, projvars, call>>

\* getopt_long returns -1
EndOfOptions ==
  /\ pc = "getopt"
  /\ pc' = "check"
  /\ UNCHANGED <<optvars, colvars, tb, sys, projvars, outvars, call>>

\* if (msg + shm + sem != 1 && !global) errx(...);
\* if (global && msg + shm + sem == 0) msg = shm = sem = 1;
CheckResource ==
  /\ pc = "check"
  /\ IF msg + shm + sem # 1 /\ global = 0
     THEN /\ Fail("One of --shmems, --queues or --semaphores must be specified")
          /\ UNCHANGED <<msg, shm, sem>>
     ELSE /\ IF global = 1 /\ msg + shm + sem = 0
             THEN msg' = 1 /\ shm' = 1 /\ sem' = 1
             ELSE UNCHANGED <<msg, shm, sem>>
          /\ pc' = "select"
          /\ UNCHANGED <<stderr, status>>
  /\ UNCHANGED <<nargs, seen, optNames, opt_o, id, show_time, show_creat,
                 global, opts, ctl, outmode, LOWER, UPPER, excl_st,
                 colvars, tb, sys, projvars, stdout, call>>

(***************************************************************************)
(* main: column selection                                                  *)
(***************************************************************************)
\* err_columns_index: the index, or "too many columns specified" when it is
\* not below the size of the array
err_columns_index(arysz, idx) == idx < arysz

RECURSIVE add_columns(_, _)
\* add_column(columns, ncolumns++, id) for the ids in turn; st is
\* [ary, n, err], err set where err_columns_index ended the run
add_columns(st, ids) ==
  IF ids = << >> \/ st.err THEN st
  ELSE IF ~err_columns_index(ColumnsSize, st.n)
       THEN [st EXCEPT !.err = TRUE]
       ELSE add_columns([ary |-> (IF st.n < Len(st.ary)
                                    THEN [st.ary EXCEPT ![st.n + 1] = Head(ids)]
                                    ELSE Append(st.ary, Head(ids))),
                         n |-> st.n + 1, err |-> FALSE],
                        Tail(ids))

\* the default columns with the creator columns in the place of OWNER
\* instead of after it; otherwise as DefaultColumnIds
DefaultColumnIds_creator(m, h, s, creat, time) ==
  <<COL_KEY, COL_ID, COL_PERMS>>
  \o (IF creat = 1 THEN <<COL_CUID, COL_CGID, COL_UID, COL_GID>> ELSE <<COL_OWNER>>)
  \o (IF m = 1
      THEN <<COL_USEDBYTES, COL_MSGS>>
           \o (IF time = 1 THEN <<COL_SEND, COL_RECV, COL_CTIME>> ELSE << >>)
           \o <<COL_LSPID, COL_LRPID>>
      ELSE IF h = 1
      THEN <<COL_SIZE, COL_NATTCH, COL_STATUS>>
           \o (IF time = 1 THEN <<COL_ATTACH, COL_DETACH>> ELSE << >>)
           \o <<COL_CTIME>>
           \o <<COL_CPID, COL_LPID, COL_COMMAND>>
      ELSE IF s = 1
      THEN <<COL_NSEMS>>
           \o (IF time = 1 THEN <<COL_OTIME, COL_CTIME>> ELSE << >>)
      ELSE << >>)

\* the ids the "default columns" branch adds, in the order it adds them;
\* m, h, s are msg, shm, sem
DefaultColumnIds(m, h, s, creat, time) ==
  <<COL_KEY, COL_ID, COL_PERMS, COL_OWNER>>
  \o (IF creat = 1 THEN <<COL_CUID, COL_CGID, COL_UID, COL_GID>> ELSE << >>)
  \o (IF m = 1
      THEN <<COL_USEDBYTES, COL_MSGS>>
           \o (IF time = 1 THEN <<COL_SEND, COL_RECV, COL_CTIME>> ELSE << >>)
           \o <<COL_LSPID, COL_LRPID>>
      ELSE IF h = 1
      THEN <<COL_SIZE, COL_NATTCH, COL_STATUS>>
           \o (IF time = 1 THEN <<COL_ATTACH, COL_DETACH>> ELSE << >>)
           \o <<COL_CTIME>>
           \o <<COL_CPID, COL_LPID, COL_COMMAND>>
      ELSE IF s = 1
      THEN <<COL_NSEMS>>
           \o (IF time = 1 THEN <<COL_OTIME, COL_CTIME>> ELSE << >>)
      ELSE << >>)

\* the columns of summary mode
SummaryColumnIds == <<COL_RESOURCE, COL_DESC, COL_USED, COL_LIMIT>>

\* sizeof(columns) in the place of ARRAY_SIZE(columns), with 4-byte ints
OutputArySize_sizeof == ColumnsSize * 4

\* the arysz main hands to string_to_idarray
OutputArySize == ColumnsSize

\* the branch of main that fills columns[]
SelectColumns ==
  /\ pc = "select"
  /\ IF global = 1 /\ opt_o = 0
     THEN LET r == add_columns([ary |-> columns, n |-> ncolumns, err |-> FALSE],
                               SummaryColumnIds)
          IN /\ columns' = r.ary
             /\ ncolumns' = r.n
             /\ IF r.err
                THEN Fail("too many columns specified")
                ELSE pc' = "setup" /\ UNCHANGED <<stderr, status>>
     ELSE IF opt_o = 1
     THEN LET r == string_to_idarray(opts, OutputArySize, LOWER, UPPER)
          IN /\ columns' = r.ary
             /\ ncolumns' = r.n
             /\ stderr' = stderr \o r.warns
             /\ IF r.n < 0
                THEN status' = EXIT_FAILURE /\ pc' = "exit"
                ELSE pc' = "setup" /\ UNCHANGED status
     ELSE IF outmode = OUT_PRETTY
     THEN /\ columns' = [k \in 1..NColdescs |-> k - 1]
          /\ ncolumns' = NColdescs
          /\ pc' = "setup"
          /\ UNCHANGED <<stderr, status>>
     ELSE LET r == add_columns([ary |-> columns, n |-> ncolumns, err |-> FALSE],
                               DefaultColumnIds(msg, shm, sem, show_creat, show_time))
          IN /\ columns' = r.ary
             /\ ncolumns' = r.n
             /\ IF r.err
                THEN Fail("too many columns specified")
                ELSE pc' = "setup" /\ UNCHANGED <<stderr, status>>
  /\ UNCHANGED <<optvars, tb, sys, projvars, stdout, call>>

(***************************************************************************)
(* The table                                                               *)
(***************************************************************************)
NoTable == [made |-> FALSE, cols |-> << >>, style |-> 0, json |-> FALSE, lines |-> << >>]

\* the columns selected
Selected == IF ncolumns > 0 THEN SubSeq(columns, 1, ncolumns) ELSE << >>

\* setup_table: one table column per selected column, in order.  The
\* allocations of libsmartcols may fail: scols_new_table ends the run with
\* errx; scols_table_new_column makes setup_table return NULL, and main
\* returns EXIT_FAILURE without a message.
SetupTable ==
  /\ pc = "setup"
  /\ \/ /\ tb' = [made |-> TRUE, cols |-> Selected, style |-> outmode,
                  json |-> ctl.json, lines |-> << >>]
        /\ pc' = "msg"
        /\ UNCHANGED <<stdout, stderr, status>>
     \/ /\ Fail("failed to initialize output table")
        /\ UNCHANGED <<tb, stdout>>
     \/ /\ ncolumns > 0
        /\ status' = EXIT_FAILURE
        /\ pc' = "exit"
        /\ UNCHANGED <<tb, stdout, stderr>>
  /\ UNCHANGED <<optvars, colvars, sys, projvars, call>>

Env ==
  [numperms |-> ctl.numperms, time_mode |-> ctl.time_mode,
   passwd |-> sys.passwd, group |-> sys.group, procs |-> sys.procs]

\* the classes in the order main serves them, and what follows each
NextPc(class) ==
  CASE class = "msg" -> "shm" [] class = "shm" -> "sem" [] class = "sem" -> "print"

Flag(class) ==
  CASE class = "msg" -> msg [] class = "shm" -> shm [] class = "sem" -> sem

Objects(class) ==
  CASE class = "msg" -> sys.msgs [] class = "shm" -> sys.shms [] class = "sem" -> sys.sems

\* global_set_data: a line with the summary cells; cells of other columns
\* stay unset
global_line(cols, resource, desc, used, limit) ==
  [cells |-> [n \in 1..Len(cols) |->
                CASE cols[n] = COL_RESOURCE -> Cell(<<resource>>)
                  [] cols[n] = COL_DESC -> Cell(<<desc>>)
                  [] cols[n] = COL_USED -> Cell(utoa(used))
                  [] cols[n] = COL_LIMIT -> Cell(utoa(limit))
                  [] OTHER -> NoCell],
   userdata |-> 0,
   src |-> <<"sum", resource>>]

RECURSIVE SumSeq(_)
\* the sum a loop over the list adds up
SumSeq(q) == IF q = << >> THEN 0 ELSE Head(q) + SumSeq(Tail(q))

\* do_msg_global
msg_global_lines(cols) ==
  LET msgqs == Len(sys.msgs)
  IN << global_line(cols, "MSGMNI", "Number of message queues", msgqs, sys.lim.msgmni),
        global_line(cols, "MSGMAX", "Max size of message (bytes)", 0, sys.lim.msgmax),
        global_line(cols, "MSGMNB", "Default max size of queue (bytes)", 0, sys.lim.msgmnb) >>

\* do_shm_global
shm_global_lines(cols) ==
  LET nsegs == Len(sys.shms)
      sum_segsz == SumSeq([k \in 1..Len(sys.shms) |-> sys.shms[k].shm_segsz])
  IN << global_line(cols, "SHMMNI", "Shared memory segments", nsegs, sys.lim.shmmni),
        global_line(cols, "SHMALL", "Shared memory pages", sum_segsz \div PageSize,
                    sys.lim.shmall) >>

\* do_sem_global: every pass of the loop adds semds->sem_nsems, the count
\* of the first set
sem_global_lines(cols) ==
  LET nsets == Len(sys.sems)
      nsems == IF sys.sems = << >> THEN 0
               ELSE SumSeq([k \in 1..Len(sys.sems) |-> sys.sems[1].sem_nsems])
  IN << global_line(cols, "SEMMNS", "Total number of semaphores", nsems, sys.lim.semmns),
        global_line(cols, "SEMMNI", "Number of Semaphore IDs", nsets, sys.lim.semmni) >>

global_lines(class, cols) ==
  CASE class = "msg" -> msg_global_lines(cols)
    [] class = "shm" -> shm_global_lines(cols)
    [] class = "sem" -> sem_global_lines(cols)

(***************************************************************************)
(* main: the queries and the projection                                    *)
(***************************************************************************)
RowPc(class) ==
  CASE class = "msg" -> "msg_row" [] class = "shm" -> "shm_row" [] class = "sem" -> "sem_row"

\* if (msg) { if (global) do_msg_global(tb); else do_msg(id, ctl, tb); }
\* and the same for shm and sem: the summary lines, or the query of do_*
\* up to the head of its loop
Serve(class) ==
  /\ pc = class
  /\ IF Flag(class) = 0
     THEN /\ pc' = NextPc(class)
          /\ UNCHANGED <<tb, projvars, stderr>>
     ELSE IF global = 1
     THEN /\ tb' = [tb EXCEPT !.lines = @ \o global_lines(class, Selected)]
          /\ pc' = NextPc(class)
          /\ UNCHANGED <<projvars, stderr>>
     ELSE LET found == get_info(Objects(class), id)
          IN IF Len(found) < 1
             THEN /\ stderr' = IF id > -1 THEN Append(stderr, "id not found") ELSE stderr
                  /\ pc' = NextPc(class)
                  /\ UNCHANGED <<tb, projvars>>
             ELSE /\ ds' = found
                  /\ dsp' = 1
                  /\ lk' = InitLookup
                  /\ pc' = RowPc(class)
                  /\ UNCHANGED <<tb, stderr>>
  /\ UNCHANGED <<optvars, colvars, sys, stdout, status, call>>

\* one pass of the for loop of do_msg, do_shm or do_sem: a new line, the
\* lookups, the cells; with id > -1 the loop is left after the first pass
\* (do_sem then attaches the text about the elements of semds)
Row(class) ==
  /\ pc = RowPc(class)
  /\ \E o \in project_row(class, Selected, ds[dsp], lk, Env) :
       /\ lk' = o.lk
       /\ tb' = [tb EXCEPT !.lines =
                   Append(@, [cells |-> o.cells,
                              userdata |-> IF class = "sem" /\ id > -1 /\ ~o.crash
                                           THEN 1 + ds[1].sem_nsems ELSE 0,
                              src |-> <<class, ds[dsp].perm.id>>])]
       /\ IF o.crash
          THEN /\ status' = "crashed"
               /\ pc' = "exit"
               /\ UNCHANGED <<ds, dsp>>
          ELSE /\ UNCHANGED status
               /\ IF id > -1 \/ dsp = Len(ds)
                  THEN pc' = NextPc(class) /\ UNCHANGED <<ds, dsp>>
                  ELSE pc' = RowPc(class) /\ dsp' = dsp + 1 /\ UNCHANGED ds
  /\ UNCHANGED <<optvars, colvars, sys, stdout, stderr, call>>

do_msg == Serve("msg")
do_msg_row == Row("msg")
do_shm == Serve("shm")
do_shm_row == Row("shm")
do_sem == Serve("sem")
do_sem_row == Row("sem")

\* print_table: print_pretty prints the cells of line 0 that are set, and
\* nothing of a table without lines; scols_print_table prints every line
print_table ==
  /\ pc = "print"
  /\ stdout' = Append(stdout,
                 IF outmode = OUT_PRETTY
                 THEN [what |-> "pretty",
                       lines |-> IF tb.lines = << >> THEN << >> ELSE <<tb.lines[1]>>]
                 ELSE [what |-> "table", lines |-> tb.lines])
  /\ status' = EXIT_SUCCESS
  /\ pc' = "exit"
  /\ UNCHANGED <<optvars, colvars, tb, sys, projvars, stderr, call>>

(***************************************************************************)
(* The run of main                                                         *)
(***************************************************************************)
InitMain ==
  /\ nargs = 0 /\ seen = {} /\ optNames = << >>
  /\ msg = 0 /\ shm = 0 /\ sem = 0 /\ opt_o = 0 /\ id = -1
  /\ show_time = 0 /\ show_creat = 0 /\ global = 0 /\ opts = << >>
  /\ ctl = [json |-> FALSE, numperms |-> FALSE, time_mode |-> TIME_SHORT]
  /\ outmode = 0 /\ LOWER = 0 /\ UPPER = 0
  /\ excl_st = UL_EXCL_STATUS_INIT
  /\ columns = << >> /\ ncolumns = 0
  /\ tb = NoTable
  /\ ds = << >> /\ dsp = 0 /\ lk = InitLookup
  /\ stdout = << >> /\ stderr = << >> /\ status = "running"
  /\ call = NoCall

Init ==
  /\ pc = "getopt"
  /\ InitMain
  /\ sys = DefaultSys

Next ==
  \/ ParseOption
  \/ EndOfOptions
  \/ CheckResource
  \/ SelectColumns
  \/ SetupTable
  \/ do_msg
  \/ do_msg_row
  \/ do_shm
  \/ do_shm_row
  \/ do_sem
  \/ do_sem_row
  \/ print_table

Spec == Init /\ [][Next]_vars

(***************************************************************************)
(* column_name_to_id on its own: a name, the number of its characters the  *)
(* caller counts (the name may go on, as inside a list), and the range     *)
(* LOWER..UPPER an option has set                                          *)
(***************************************************************************)
ToLower(s) == [k \in 1..Len(s) |-> tolower(s[k])]

\* the registry names as written, in lower case, and with a lower-case
\* first letter
RegistryNames ==
  UNION { {coldescs[k], ToLower(coldescs[k]),
           <<tolower(coldescs[k][1])>> \o Tail(coldescs[k])} :
          k \in 1..NColdescs }

\* names that are no registry name: the empty name, registry names without
\* their last letter, with one letter more, and others
OtherNames ==
  { << >>, <<"X">>, <<"K">>, <<"N", "A", "M", "E">> }
  \cup { SubSeq(coldescs[k], 1, Len(coldescs[k]) - 1) : k \in 1..NColdescs }
  \cup { Append(coldescs[k], "S") : k \in 1..NColdescs }

\* a name inside a list: the list from the name on, and the length of the
\* name
NamesInLists ==
  { [name |-> n \o <<",">> \o coldescs[COL_ID + 1], namesz |-> Len(n)] :
      n \in {coldescs[COL_KEY + 1], coldescs[COL_SIZE + 1], <<"K", "E">>,
             coldescs[COL_USED + 1], coldescs[COL_USEDBYTES + 1]} }

NameInputs ==
  { [name |-> n, namesz |-> Len(n)] : n \in RegistryNames \cup OtherNames }
  \cup NamesInLists

\* LOWER and UPPER as main leaves them: 0 and 0, or the band of g, q, m, s
Ranges ==
  { <<0, 0>>,
    <<COLDESC_IDX_SUM_FIRST, COLDESC_IDX_SUM_LAST>>,
    <<COLDESC_IDX_MSG_FIRST, COLDESC_IDX_MSG_LAST>>,
    <<COLDESC_IDX_SHM_FIRST, COLDESC_IDX_SHM_LAST>>,
    <<COLDESC_IDX_SEM_FIRST, COLDESC_IDX_SEM_LAST>> }

InitName ==
  /\ pc = "name"
  /\ nargs = 0 /\ seen = {} /\ optNames = << >>
  /\ msg = 0 /\ shm = 0 /\ sem = 0 /\ opt_o = 0 /\ id = -1
  /\ show_time = 0 /\ show_creat = 0 /\ global = 0 /\ opts = << >>
  /\ ctl = [json |-> FALSE, numperms |-> FALSE, time_mode |-> TIME_SHORT]
  /\ outmode = 0
  /\ \E r \in Ranges : LOWER = r[1] /\ UPPER = r[2]
  /\ excl_st = UL_EXCL_STATUS_INIT
  /\ columns = << >> /\ ncolumns = 0
  /\ tb = NoTable
  /\ sys = DefaultSys
  /\ ds = << >> /\ dsp = 0 /\ lk = InitLookup
  /\ stdout = << >> /\ stderr = << >> /\ status = "running"
  /\ \E in \in NameInputs :
       call = [NoCall EXCEPT !.name = in.name, !.namesz = in.namesz]

\* the call; warnx writes the message of a failed lookup
CallColumnNameToId ==
  /\ pc = "name"
  /\ ~call.done
  /\ LET r == column_name_to_id(call.name, call.namesz, LOWER, UPPER)
     IN /\ call' = [call EXCEPT !.done = TRUE, !.ret = r]
        /\ stderr' = IF r.id = -1 THEN Append(stderr, r.warn) ELSE stderr
  /\ pc' = "exit"
  /\ UNCHANGED <<optvars, colvars, tb, sys, projvars, stdout, status>>

NextName == CallColumnNameToId

SpecName == InitName /\ [][NextName]_vars

(***************************************************************************)
(* The projection on its own: main after setup_table, for one class, with  *)
(* the objects the kernel holds, the columns and --numeric-perms varied    *)
(***************************************************************************)
\* uid, gid, cuid, cgid of an object: ids with and without an entry in the
\* directories, the creator the owner or another
OwnerSamples ==
  { <<0, 10, 0, 10>>, <<2, 12, 2, 12>>, <<0, 10, 2, 12>>, <<2, 12, 1, 11>>,
    <<1, 11, 2, 10>> }

RECURSIVE FlagSum(_)
FlagSum(S) == IF S = {} THEN 0 ELSE LET x == CHOOSE y \in S : TRUE
                                    IN x + FlagSum(S \ {x})

\* modes: permission bits, and for shared memory every set of the flags
ModeSamples(class) ==
  IF class = "shm"
  THEN { 420 + FlagSum(F) :
           F \in SUBSET {SHM_DEST, SHM_LOCKED, SHM_HUGETLB, SHM_NORESERVE} }
  ELSE { 0, 384, 420, 511 }

\* the object with id i
Record(class, i, own, mode) ==
  LET perm == Perm(i, own[1], own[2], own[3], own[4], mode)
  IN CASE class = "msg" -> MsgRec(perm, 1000)
       [] class = "shm" -> ShmRec(perm, 1000)
       [] class = "sem" -> SemRec(perm, 1000, 3)

\* what the kernel holds of the class: up to MaxRecords objects of
\* differing ownership, or one object of any mode
RecordLists(class) ==
  UNION { { [i \in 1..n |-> Record(class, i - 1, f[i], 420)] :
              f \in [1..n -> OwnerSamples] } : n \in 1..MaxRecords }
  \cup { << Record(class, 0, <<0, 10, 0, 10>>, m) >> : m \in ModeSamples(class) }

ClassColumns(class) ==
  CASE class = "msg" -> <<COL_ID, COL_MSGS>>
    [] class = "shm" -> <<COL_ID, COL_STATUS>>
    [] class = "sem" -> <<COL_ID, COL_NSEMS>>

\* --output lists of names of the class, as the ids string_to_idarray
\* leaves in columns[]
ColumnLists(class) ==
  { <<COL_ID, COL_OWNER, COL_UID, COL_GID, COL_CUID, COL_CGID>>,
    <<COL_CGID, COL_CUID, COL_GID, COL_OWNER>>,
    <<COL_KEY, COL_PERMS, COL_CTIME>>,
    ClassColumns(class) }

BandOf(class) ==
  CASE class = "msg" -> <<COLDESC_IDX_MSG_FIRST, COLDESC_IDX_MSG_LAST>>
    [] class = "shm" -> <<COLDESC_IDX_SHM_FIRST, COLDESC_IDX_SHM_LAST>>
    [] class = "sem" -> <<COLDESC_IDX_SEM_FIRST, COLDESC_IDX_SEM_LAST>>

OptionOf(class) ==
  CASE class = "msg" -> "q" [] class = "shm" -> "m" [] class = "sem" -> "s"

RECURSIVE ExclAfter(_, _)
\* excl_st after the options of a command line without a conflict
ExclAfter(os, st) ==
  IF os = << >> THEN st ELSE ExclAfter(Tail(os), ExclStatus(Head(os), st))

\* the state of main after setup_table for the command line
\*   -<class> [-P] -o <list>      or      -<class> [-P] -i 0
InitProj ==
  \E class \in {"msg", "shm", "sem"}, P \in BOOLEAN, detail \in BOOLEAN :
  \E cols \in (IF detail THEN {[k \in 1..NColdescs |-> k - 1]}
               ELSE ColumnLists(class)) :
  \E recs \in RecordLists(class) :
    LET os == <<OptionOf(class)>> \o (IF P THEN <<"P">> ELSE << >>)
              \o (IF detail THEN <<"i">> ELSE <<"o">>)
        names == [k \in 1..Len(cols) |-> coldescs[cols[k] + 1]]
    IN /\ pc = "msg"
       /\ nargs = Len(os)
       /\ seen = {os[k] : k \in 1..Len(os)}
       /\ optNames = IF detail THEN << >> ELSE names
       /\ opts = IF detail THEN << >> ELSE JoinNames(names)
       /\ opt_o = IF detail THEN 0 ELSE 1
       /\ id = IF detail THEN 0 ELSE -1
       /\ outmode = IF detail THEN OUT_PRETTY ELSE 0
       /\ msg = IF class = "msg" THEN 1 ELSE 0
       /\ shm = IF class = "shm" THEN 1 ELSE 0
       /\ sem = IF class = "sem" THEN 1 ELSE 0
       /\ show_time = 0 /\ show_creat = 0 /\ global = 0
       /\ ctl = [json |-> FALSE, numperms |-> P, time_mode |-> TIME_SHORT]
       /\ LOWER = BandOf(class)[1] /\ UPPER = BandOf(class)[2]
       /\ excl_st = ExclAfter(os, UL_EXCL_STATUS_INIT)
       /\ columns = cols /\ ncolumns = Len(cols)
       /\ tb = [made |-> TRUE, cols |-> cols, style |-> outmode,
                json |-> FALSE, lines |-> << >>]
       /\ sys = [DefaultSys EXCEPT
                   !.msgs = IF class = "msg" THEN recs ELSE @,
                   !.shms = IF class = "shm" THEN recs ELSE @,
                   !.sems = IF class = "sem" THEN recs ELSE @]
       /\ ds = << >> /\ dsp = 0 /\ lk = InitLookup
       /\ stdout = << >> /\ stderr = << >> /\ status = "running"
       /\ call = NoCall

NextProj ==
  \/ do_msg
  \/ do_msg_row
  \/ do_shm
  \/ do_shm_row
  \/ do_sem
  \/ do_sem_row
  \/ print_table

SpecProj == InitProj /\ [][NextProj]_vars

(***************************************************************************)
(* The time columns: the runs  -<class> --time-format <mode> -o <list>     *)
(* over objects of every combination of set and unset timestamps           *)
(***************************************************************************)
\* timestamps: unset, the first second, a later second
Times == {0, 1, 1000}

TimeModes == {TIME_SHORT, TIME_FULL, TIME_ISO}

\* the time columns each function has a case for
TimeColumns(class) ==
  CASE class = "msg" -> <<COL_CTIME, COL_SEND, COL_RECV>>
    [] class = "shm" -> <<COL_CTIME, COL_ATTACH, COL_DETACH>>
    [] class = "sem" -> <<COL_CTIME, COL_OTIME>>

\* the object with id i and the timestamps t, in the order of TimeColumns
TimeRecord(class, i, t) ==
  LET perm == Perm(i, 0, 10, 0, 10, 420)
  IN CASE class = "msg" ->
            [MsgRec(perm, 0) EXCEPT !.q_ctime = t[1], !.q_stime = t[2],
                                    !.q_rtime = t[3]]
       [] class = "shm" ->
            [ShmRec(perm, 0) EXCEPT !.shm_ctim = t[1], !.shm_atim = t[2],
                                    !.shm_dtim = t[3]]
       [] class = "sem" ->
            [SemRec(perm, 0, 3) EXCEPT !.sem_ctime = t[1], !.sem_otime = t[2]]

\* up to MaxRecords objects; the object with id i has the timestamps of
\* object 0 moved on by i places
TimeRecordLists(class) ==
  { [i \in 1..n |-> TimeRecord(class, i - 1,
                               [k \in 1..3 |-> t[((k + i - 2) % 3) + 1]])] :
      n \in 1..MaxRecords, t \in [1..3 -> Times] }

\* the state of main after setup_table for the command line
\*   -<class> --time-format <mode> -o ID,<the time columns of the class>
InitTime ==
  \E class \in {"msg", "shm", "sem"}, mode \in TimeModes :
  \E recs \in TimeRecordLists(class) :
    LET os == <<OptionOf(class), "time-format", "o">>
        cols == <<COL_ID>> \o TimeColumns(class)
        names == [k \in 1..Len(cols) |-> coldescs[cols[k] + 1]]
    IN /\ pc = "msg"
       /\ nargs = Len(os)
       /\ seen = {os[k] : k \in 1..Len(os)}
       /\ optNames = names
       /\ opts = JoinNames(names)
       /\ opt_o = 1
       /\ id = -1
       /\ outmode = 0
       /\ msg = IF class = "msg" THEN 1 ELSE 0
       /\ shm = IF class = "shm" THEN 1 ELSE 0
       /\ sem = IF class = "sem" THEN 1 ELSE 0
       /\ show_time = 0 /\ show_creat = 0 /\ global = 0
       /\ ctl = [json |-> FALSE, numperms |-> FALSE, time_mode |-> mode]
       /\ LOWER = BandOf(class)[1] /\ UPPER = BandOf(class)[2]
       /\ excl_st = ExclAfter(os, UL_EXCL_STATUS_INIT)
       /\ columns = cols /\ ncolumns = Len(cols)
       /\ tb = [made |-> TRUE, cols |-> cols, style |-> outmode,
                json |-> FALSE, lines |-> << >>]
       /\ sys = [DefaultSys EXCEPT
                   !.msgs = IF class = "msg" THEN recs ELSE @,
                   !.shms = IF class = "shm" THEN recs ELSE @,
                   !.sems = IF class = "sem" THEN recs ELSE @]
       /\ ds = << >> /\ dsp = 0 /\ lk = InitLookup
       /\ stdout = << >> /\ stderr = << >> /\ status = "running"
       /\ call = NoCall

SpecTime == InitTime /\ [][NextProj]_vars

(***************************************************************************)
(* Properties                                                              *)
(***************************************************************************)
\* the name the caller means: the first namesz characters
CalledName == SubSeq(call.name, 1, call.namesz)

\* equal over the whole length, ignoring case
EqualIgnoringCase(a, b) ==
  /\ Len(a) = Len(b)
  /\ \A k \in 1..Len(a) : tolower(a[k]) = tolower(b[k])

\* the ids whose registry name the name is
IdsNamed(n) == {i \in 0..(NColdescs - 1) : EqualIgnoringCase(n, coldescs[i + 1])}

InBand(i, first, last) == i >= first /\ i <= last

\* C2: column_name_to_id returns an id iff the name is a registry name over
\* its whole length ignoring case (a prefix and the empty name are none)
\* and the id is in the generic band KEY..CTIME or in LOWER..UPPER; the id
\* returned is the id of that name; a registry name of another band outside
\* LOWER..UPPER fails with "column does not apply", a name of no registry
\* entry with "unknown column".
C2_NameToId ==
  call.done =>
    LET ids == IdsNamed(CalledName)
        ok == {i \in ids : \/ InBand(i, COLDESC_IDX_GEN_FIRST, COLDESC_IDX_GEN_LAST)
                           \/ InBand(i, LOWER, UPPER)}
    IN /\ Cardinality(ids) <= 1
       /\ ok # {} => call.ret.id \in ok /\ call.ret.warn = "" /\ stderr = << >>
       /\ ok = {} => call.ret.id = -1
       /\ (ids # {} /\ ok = {}) =>
            call.ret.warn = W_NOTAPPLY /\ stderr = <<W_NOTAPPLY>>
       /\ ids = {} => call.ret.warn = W_UNKNOWN /\ stderr = <<W_UNKNOWN>>

\* C2 witness: a call that returned for a lower-case name of the shared
\* memory band inside a list, with the range of shared memory
C2_Witness ==
  /\ call.done
  /\ call.namesz < Len(call.name)
  /\ call.ret.id = COL_SIZE
  /\ LOWER = COLDESC_IDX_SHM_FIRST

\* column selection has run: every branch of it leaves ncolumns non-zero
SelectionRan == ncolumns # 0

\* nothing was queried and nothing printed
NothingQueriedOrPrinted ==
  /\ ~tb.made
  /\ ds = << >> /\ dsp = 0
  /\ stdout = << >>

FailedBeforeTable ==
  /\ pc = "exit"
  /\ status = EXIT_FAILURE
  /\ NothingQueriedOrPrinted

\* setup_table could not allocate the table or one of its columns
AllocationFailed ==
  /\ FailedBeforeTable
  /\ ncolumns > 0
  /\ stderr \in {<< >>, <<"failed to initialize output table">>}

\* the band of the class the command line names: the summary columns of
\* --global, the columns of the one class otherwise
ActiveBand ==
  IF "g" \in seen THEN <<COLDESC_IDX_SUM_FIRST, COLDESC_IDX_SUM_LAST>>
  ELSE IF "q" \in seen THEN <<COLDESC_IDX_MSG_FIRST, COLDESC_IDX_MSG_LAST>>
  ELSE IF "m" \in seen THEN <<COLDESC_IDX_SHM_FIRST, COLDESC_IDX_SHM_LAST>>
  ELSE <<COLDESC_IDX_SEM_FIRST, COLDESC_IDX_SEM_LAST>>

\* one resource selector and no --global, or --global and no selector
OneClassNamed == Cardinality(seen \cap {"g", "q", "m", "s"}) = 1

ValidName(n) ==
  \E i \in IdsNamed(n) :
     \/ InBand(i, COLDESC_IDX_GEN_FIRST, COLDESC_IDX_GEN_LAST)
     \/ InBand(i, ActiveBand[1], ActiveBand[2])

AllNamesValid == \A k \in 1..Len(optNames) : ValidName(optNames[k])

\* one selected column per name of the list, in the order of the list
OneColumnPerName ==
  /\ ncolumns = Len(optNames)
  /\ Len(columns) = ncolumns
  /\ \A k \in 1..Len(optNames) : columns[k] \in IdsNamed(optNames[k])

C3_Capacity ==
  /\ Len(columns) <= ColumnsSize
  /\ (pc = "setup" \/ tb.made) => (ncolumns >= 0 /\ ncolumns <= 2 * NColdescs)
  /\ (SelectionRan /\ opt_o = 1 /\ Len(optNames) > ColumnsSize) => FailedBeforeTable

\* C3 witness: a list of one name more than columns[] has slots, cut off by
\* string_to_idarray with every slot written
C3_Witness ==
  /\ opt_o = 1 /\ Len(optNames) = ColumnsSize + 1
  /\ Len(columns) = ColumnsSize
  /\ ncolumns = -2
  /\ pc = "exit"

RECURSIVE IsSubseq(_, _)
\* a is b with some elements left out
IsSubseq(a, b) ==
  IF a = << >> THEN TRUE
  ELSE IF b = << >> THEN FALSE
  ELSE IF Head(a) = Head(b) THEN IsSubseq(Tail(a), Tail(b))
  ELSE IsSubseq(a, Tail(b))

Given(o) == IF o \in seen THEN 1 ELSE 0

\* C4: without --output and --id the columns selected are the default list
\* of the class and of the flags -c and -t on the command line (the four
\* summary columns with --global), whatever else the command line holds,
\* and the list of the class without the flags is a subsequence of it.
C4_DefaultColumns ==
  (SelectionRan /\ "o" \notin seen /\ "i" \notin seen) =>
    IF "g" \in seen
    THEN Selected = SummaryColumnIds /\ "c" \notin seen /\ "t" \notin seen
    ELSE /\ Selected = DefaultColumnIds(Given("q"), Given("m"), Given("s"),
                                        Given("c"), Given("t"))
         /\ IsSubseq(DefaultColumnIds(Given("q"), Given("m"), Given("s"), 0, 0),
                     Selected)
         /\ Len(Selected) >= 5

\* C4 witness: the default list of shared memory with --creator, other
\* options given as well
C4_Witness ==
  /\ tb.made /\ seen = {"m", "c", "P"}
  /\ Len(tb.cols) = Len(DefaultColumnIds(0, 1, 0, 0, 0)) + 4

\* C8 as stated: with --id the table is rendered pretty and holds every
\* column of the registry.
C8_Original ==
  ("i" \in seen /\ tb.made) =>
    /\ outmode = OUT_PRETTY
    /\ tb.style = OUT_PRETTY
    /\ tb.cols = [k \in 1..NColdescs |-> k - 1]

\* the resources of the summary lines of a class
SummaryRows(class) ==
  CASE class = "msg" -> {"MSGMNI", "MSGMAX", "MSGMNB"}
    [] class = "shm" -> {"SHMMNI", "SHMALL"}
    [] class = "sem" -> {"SEMMNS", "SEMMNI"}

SelectorOf(class) ==
  CASE class = "msg" -> "q" [] class = "shm" -> "m" [] class = "sem" -> "s"

\* the classes the selectors on the command line name, all three without a
\* selector
ClassesNamed ==
  IF seen \cap {"q", "m", "s"} = {} THEN {"msg", "shm", "sem"}
  ELSE {c \in {"msg", "shm", "sem"} : SelectorOf(c) \in seen}

\* C9 as stated: a command line of --global and any of the selectors does
\* not fail, and the lines printed are the summary lines of the classes
\* named.
C9_Original ==
  ("g" \in seen /\ seen \subseteq {"g", "q", "m", "s"}) =>
    /\ status # EXIT_FAILURE
    /\ pc = "exit" =>
         /\ Len(stdout) = 1
         /\ {stdout[1].lines[k].src[2] : k \in 1..Len(stdout[1].lines)}
              = UNION {SummaryRows(c) : c \in ClassesNamed}

ModeFlags == {"r", "e", "n", "colon-separate", "z", "J"}

\* C10: once two different output-mode flags have been handed out, the run
\* has ended with a failure status and the one message of the conflict, no
\* column selected, no table, no query, nothing printed.
C10_ModeFlagsExclusive ==
  Cardinality(seen \cap ModeFlags) >= 2 =>
    /\ FailedBeforeTable
    /\ ncolumns = 0 /\ columns = << >>
    /\ stderr = <<"mutually exclusive arguments">>

\* C10 witness: --json and --raw on one command line
C10_Witness ==
  /\ {"J", "r"} \subseteq seen
  /\ pc = "exit"

\* the lines of the table that are rows of objects of the class
RowsOf(class) == {k \in 1..Len(tb.lines) : tb.lines[k].src[1] = class}

\* the object a row was made of
RecordOf(class, k) ==
  LET all == Objects(class)
  IN all[CHOOSE j \in 1..Len(all) : all[j].perm.id = tb.lines[k].src[2]]

\* the cells of row k the loop over the columns got to, of column col
CellsOf(k, col) ==
  {n \in 1..Len(tb.lines[k].cells) : tb.cols[n] = col}

\* the names of the flags set in mode, in the order dest, locked, hugetlb,
\* noreserve, with a comma between each two
StatusNames(mode) ==
  LET all == << [bit |-> SHM_DEST, name |-> str_dest],
                [bit |-> SHM_LOCKED, name |-> str_locked],
                [bit |-> SHM_HUGETLB, name |-> str_hugetlb],
                [bit |-> SHM_NORESERVE, name |-> str_noreserve] >>
      on == SelectSeq(all, LAMBDA f : BitSet(mode, f.bit))
  IN JoinNames([k \in 1..Len(on) |-> on[k].name])

\* C5 as stated: the STATUS cell of every shared memory row is the names
\* of the flags set in the mode of the segment, in the order dest, locked,
\* hugetlb, noreserve, with one comma between each two, and the empty
\* string when none is set.
C5_Original ==
  \A k \in RowsOf("shm") : \A n \in CellsOf(k, COL_STATUS) :
     tb.lines[k].cells[n] = Cell(StatusNames(RecordOf("shm", k).perm.mode))

OwnershipColumns == {COL_OWNER, COL_UID, COL_GID, COL_CUID, COL_CGID}

\* the numeric id an ownership column shows, and the directory it is
\* looked up in
OwnId(col, r) ==
  CASE col \in {COL_OWNER, COL_UID} -> r.perm.uid
    [] col = COL_GID -> r.perm.gid
    [] col = COL_CUID -> r.perm.cuid
    [] col = COL_CGID -> r.perm.cgid

OwnDirectory(col) ==
  IF col \in {COL_OWNER, COL_UID, COL_CUID} THEN sys.passwd ELSE sys.group

\* C6 as stated: projection never crashes, and in every row of every class
\* an ownership cell whose id has no entry in the directory holds that id
\* in decimal.
C6_Original ==
  /\ status # "crashed"
  /\ \A class \in {"msg", "shm", "sem"} : \A k \in RowsOf(class) :
     \A col \in OwnershipColumns : \A n \in CellsOf(k, col) :
        LET x == OwnId(col, RecordOf(class, k))
        IN x \notin DOMAIN OwnDirectory(col) =>
             tb.lines[k].cells[n] = Cell(utoa(x))

\* C7 as stated: in every row of every class the PERMS cell is set, to the
\* permission bits in octal (with or without the leading 0 of "%#o") with
\* --numeric-perms and to the rwx string without.
C7_Original ==
  \A class \in {"msg", "shm", "sem"} : \A k \in RowsOf(class) :
  \A n \in CellsOf(k, COL_PERMS) :
     LET bits == RecordOf(class, k).perm.mode % 512
         cell == tb.lines[k].cells[n]
     IN /\ cell.set
        /\ IF ctl.numperms
           THEN cell.data \in {utoa_base(bits, 8), <<"0">> \o utoa_base(bits, 8)}
           ELSE cell.data = strmode(bits)

\* the class the one selector names
ClassServed == CHOOSE c \in {"msg", "shm", "sem"} : Flag(c) = 1

\* no object of the class has the id of --id
IdNamesNoObject ==
  \A k \in 1..Len(Objects(ClassServed)) : Objects(ClassServed)[k].perm.id # id

\* the run of a detail query is over: --id was given, the table was built
\* and the run has ended
DetailRunOver == "i" \in seen /\ tb.made /\ pc = "exit"

\* one warning, no row, nothing printed of the table, success
WarnedAndEmpty ==
  /\ stderr = <<"id not found">>
  /\ tb.lines = << >>
  /\ Len(stdout) = 1 /\ stdout[1].lines = << >>
  /\ status = EXIT_SUCCESS

\* C11 as stated: a detail query whose --id names no object of the class
\* ends with one "id not found" warning, no row in the table, nothing
\* printed of it, and a success status.
C11_Original == (DetailRunOver /\ IdNamesNoObject) => WarnedAndEmpty

\* C11 for the ids of zero and above: this holds.  Below zero the functions
\* take the id for "every object" (id > -1 is false).
C11_NonNegativeIds == (DetailRunOver /\ IdNamesNoObject /\ id >= 0) => WarnedAndEmpty

\* the timestamp of record r that column col shows
TimestampOf(class, r, col) ==
  CASE class = "msg" /\ col = COL_CTIME -> r.q_ctime
    [] class = "msg" /\ col = COL_SEND -> r.q_stime
    [] class = "msg" /\ col = COL_RECV -> r.q_rtime
    [] class = "shm" /\ col = COL_CTIME -> r.shm_ctim
    [] class = "shm" /\ col = COL_ATTACH -> r.shm_atim
    [] class = "shm" /\ col = COL_DETACH -> r.shm_dtim
    [] class = "sem" /\ col = COL_CTIME -> r.sem_ctime
    [] class = "sem" /\ col = COL_OTIME -> r.sem_otime

\* the time columns of the class among the columns of the table
TimeColumnsOf(class) ==
  {TimeColumns(class)[j] : j \in 1..Len(TimeColumns(class))}

\* the cell of a time column in a row: unset for the timestamp 0, set to the
\* date in the format of the mode otherwise
TimeCellRight(cell, t) ==
  IF t = 0
  THEN ~cell.set /\ cell.data = << >>
  ELSE /\ cell.set
       /\ cell.data = make_time(ctl.time_mode, t)
       /\ cell.data # <<"0">>

\* C12: in every row of every class and under every time format, the cell of
\* a time column (CTIME, SEND, RECV, ATTACH, DETACH, OTIME) is left unset
\* when the timestamp of the record is 0 and is set to the formatted date
\* when it is not 0.
C12_TimeCells ==
  \A class \in {"msg", "shm", "sem"} :
    \A k \in RowsOf(class) :
      \A col \in TimeColumnsOf(class) :
        \A n \in CellsOf(k, col) :
          TimeCellRight(tb.lines[k].cells[n],
                        TimestampOf(class, RecordOf(class, k), col))

\* C12 witness: a printed table with a row that has both an unset and a
\* set time cell, under the full format
C12_Witness ==
  /\ pc = "exit"
  /\ ctl.time_mode = TIME_FULL
  /\ \E class \in {"msg", "shm", "sem"} :
       \E k \in RowsOf(class) :
         \E c1, c2 \in TimeColumnsOf(class) :
           /\ TimestampOf(class, RecordOf(class, k), c1) = 0
           /\ TimestampOf(class, RecordOf(class, k), c2) # 0
           /\ \E n \in CellsOf(k, c1) : ~tb.lines[k].cells[n].set
           /\ \E n \in CellsOf(k, c2) : tb.lines[k].cells[n].set

\* the run has ended with a failure exit status
FailureExit == pc = "exit" /\ status = EXIT_FAILURE

\* C13 as stated: every run that ends with a failure exit status has
\* printed exactly one message to standard error.
C13_Original == FailureExit => Len(stderr) = 1

\* the failure exits without a message: string_to_idarray gave up on a list
\* of more names than columns[] holds (ncolumns = -2) or on the empty list
\* (ncolumns = -1), or setup_table returned NULL for a column that could not
\* be made
SilentFailure ==
  \/ ncolumns = -2
  \/ ncolumns = -1 /\ opts = << >>
  \/ ncolumns > 0 /\ ~tb.made

\* C13 for the remaining failure exits: every one that is not silent has
\* printed exactly one message, and the silent ones have printed nothing.
C13_OtherFailureExits ==
  FailureExit => IF Len(stderr) = 1 THEN TRUE ELSE SilentFailure /\ stderr = << >>

\* every selected column is of the generic band or of the band first..last
SelectedWithin(first, last) ==
  \A k \in 1..ncolumns :
     \/ InBand(columns[k], COLDESC_IDX_GEN_FIRST, COLDESC_IDX_GEN_LAST)
     \/ InBand(columns[k], first, last)

\* C14 as stated: in every run that reaches projection, every selected
\* column is of the generic band or of the band of the active class, the
\* summary band under --global, however the list was built.
C14_Original == tb.made => SelectedWithin(ActiveBand[1], ActiveBand[2])

\* what holds of each way of building the list: an --output list is within
\* LOWER..UPPER, the band of the last of -g, -q, -m, -s; the default list is
\* within the band of the mode; the list of the detail mode holds every
\* column of every band.
C14_ByList ==
  tb.made =>
    IF opt_o = 1 THEN SelectedWithin(LOWER, UPPER)
    ELSE IF global = 0 /\ outmode = OUT_PRETTY
         THEN Selected = [k \in 1..NColdescs |-> k - 1]
         ELSE SelectedWithin(ActiveBand[1], ActiveBand[2])

\* the names a directory holds
NamesOf(dir) == {dir[x] : x \in DOMAIN dir}

\* the cell shows the identity of the id x of the record's own field: the
\* name of the entry of x, or no name of the directory where x has no entry
OwnIdentityShown(cell, dir, x) ==
  IF x \in DOMAIN dir
  THEN cell = Cell(dir[x])
  ELSE cell.data \notin NamesOf(dir)

\* C15 as stated: in every row of every class and for every column order,
\* each of the cells OWNER, UID, GID, CUID, CGID shows the identity looked
\* up for the record's own id of that field, never the entry cached for
\* another id.
C15_Original ==
  \A class \in {"msg", "shm", "sem"} : \A k \in RowsOf(class) :
  \A col \in OwnershipColumns : \A n \in CellsOf(k, col) :
     OwnIdentityShown(tb.lines[k].cells[n], OwnDirectory(col),
                      OwnId(col, RecordOf(class, k)))

\* C16 as stated: while the output mode is the pretty mode of --id, the
\* table holds at most one row, whatever the argument of --id is.
C16_Original == outmode = OUT_PRETTY => Len(tb.lines) <= 1

\* C16 for the ids of zero and above, which atoi also gives for an argument
\* that is no number: this holds.
C16_NonNegativeIds == (outmode = OUT_PRETTY /\ id >= 0) => Len(tb.lines) <= 1

\* the USED cells of the summary line of a resource
UsedCells(resource) ==
  { tb.lines[k].cells[n] :
      k \in {j \in 1..Len(tb.lines) : tb.lines[j].src = <<"sum", resource>>},
      n \in {m \in 1..Len(tb.cols) : tb.cols[m] = COL_USED} }

\* the semaphores of all the sets together
TotalSemaphores == SumSeq([k \in 1..Len(sys.sems) |-> sys.sems[k].sem_nsems])

\* C17 as stated: in the summary the USED cell of the SEMMNS line is the sum
\* of sem_nsems over all the sets the query returned, and the USED cell of
\* the SEMMNI line is the number of sets.
C17_Original ==
  /\ \A c \in UsedCells("SEMMNS") : c = Cell(utoa(TotalSemaphores))
  /\ \A c \in UsedCells("SEMMNI") : c = Cell(utoa(Len(sys.sems)))

\* the SEMMNI line alone: this holds.
C17_NumberOfSets ==
  \A c \in UsedCells("SEMMNI") : c = Cell(utoa(Len(sys.sems)))

\* --global and one resource selector were given
GlobalAndOneSelector ==
  "g" \in seen /\ Cardinality(seen \cap {"q", "m", "s"}) = 1

SummaryNames ==
  << coldescs[COL_RESOURCE + 1], coldescs[COL_DESC + 1],
     coldescs[COL_USED + 1], coldescs[COL_LIMIT + 1] >>

\* C18 as stated: with --global and one selector, in either order, the
\* range an --output list is validated against is the same, and the list
\* RESOURCE,DESCRIPTION,USED,LIMIT is accepted: the range is the summary
\* band when the list is about to be validated, and the run with that list
\* selects its four columns and does not fail there.
C18_Original ==
  /\ (GlobalAndOneSelector /\ opt_o = 1 /\ pc = "select") =>
        <<LOWER, UPPER>> = <<COLDESC_IDX_SUM_FIRST, COLDESC_IDX_SUM_LAST>>
  /\ (GlobalAndOneSelector /\ opt_o = 1 /\ SelectionRan
      /\ optNames = SummaryNames) =>
        Selected = <<COL_RESOURCE, COL_DESC, COL_USED, COL_LIMIT>>

\* what holds instead: the range is the summary band or the band of the
\* selector, the one of the two options that came last.
C18_EitherBand ==
  (GlobalAndOneSelector /\ opt_o = 1 /\ pc = "select") =>
     <<LOWER, UPPER>> \in
        { <<COLDESC_IDX_SUM_FIRST, COLDESC_IDX_SUM_LAST>>,
          BandOf(CHOOSE c \in {"msg", "shm", "sem"} : SelectorOf(c) \in seen) }

=============================================================================
